---- MODULE Spec2Model ----
(***************************************************************************)
(* The poster editor of src/app/components/HTMLEditor.tsx as a state       *)
(* machine: the React state of ProductionHTMLEditor, the closures its      *)
(* asynchronous callbacks and its keydown listener hold, and one action    *)
(* per event handler.                                                      *)
(*                                                                         *)
(* A handler reads the state of the render that created it.  Handlers      *)
(* given to React as props, and the listeners of the drag effect (whose    *)
(* dependency list names everything they read), are those of the latest    *)
(* render.  Three closures outlive their render:                           *)
(*   - reader.onload of handleImport keeps the saveHistory of the render   *)
(*     in which the read started (its history and historyIndex);           *)
(*   - reader.onload of handleImageUpload keeps that render's              *)
(*     updateProperty (its elements and selectedId);                       *)
(*   - handleKey is re-created only when selectedId, isEditingText or      *)
(*     historyIndex change, and keeps the elements and history of the      *)
(*     render in which that last happened.                                 *)
(***************************************************************************)
EXTENDS Integers, Sequences, FiniteSets, TLC

\* ------------------------------------------------------------- bounds
MaxElements == 2    \* elements addElement may put on the canvas
MaxHistory == 3     \* history entries
MaxClock == 1       \* the last value of Date.now(); the first is 0
MaxPending == 2     \* imports in flight
MaxUploads == 1     \* image uploads in flight
MaxEvents == 6      \* events of one session that change its state

\* ---------------------------------------------------------- constants
CanvasMax == 670
Null == "null"

Min(a, b) == IF a < b THEN a ELSE b
Max(a, b) == IF a > b THEN a ELSE b

\* The a || b of two strings: the empty string is falsy.
JsOr(a, b) == IF a # "" THEN a ELSE b

\* ------------------------------------------------------------ strings
\* s.startsWith(p), s.includes(p)
StartsWith(s, p) == Len(s) >= Len(p) /\ SubSeq(s, 1, Len(p)) = p
Includes(s, p) == \E i \in 1..(Len(s) - Len(p) + 1) : SubSeq(s, i, i + Len(p) - 1) = p

UpperCase == "ABCDEFGHIJKLMNOPQRSTUVWXYZ"
LowerCase == "abcdefghijklmnopqrstuvwxyz"
IsUpper(c) == \E i \in 1..Len(UpperCase) : SubSeq(UpperCase, i, i) = c
LowerChar(c) ==
    IF IsUpper(c)
    THEN LET i == CHOOSE j \in 1..Len(UpperCase) : SubSeq(UpperCase, j, j) = c
         IN SubSeq(LowerCase, i, i)
    ELSE c

\* s.toLowerCase()
RECURSIVE ToLowerCase(_)
ToLowerCase(s) ==
    IF s = "" THEN ""
    ELSE LowerChar(SubSeq(s, 1, 1)) \o ToLowerCase(SubSeq(s, 2, Len(s)))

DecimalDigits == "0123456789"
IsDigit(c) == \E d \in 1..Len(DecimalDigits) : SubSeq(DecimalDigits, d, d) = c
DigitValue(c) == (CHOOSE d \in 1..Len(DecimalDigits) : SubSeq(DecimalDigits, d, d) = c) - 1

\* The digits s starts with, read as a number on top of acc.
RECURSIVE LeadingDigits(_, _)
LeadingDigits(s, acc) ==
    IF s # "" /\ IsDigit(SubSeq(s, 1, 1))
    THEN LeadingDigits(SubSeq(s, 2, Len(s)), acc * 10 + DigitValue(SubSeq(s, 1, 1)))
    ELSE acc

\* parseInt(s): << n >>, or << >> for NaN (s does not start with a number)
ParseInt(s) ==
    LET negative == StartsWith(s, "-")
        body == IF negative \/ StartsWith(s, "+") THEN SubSeq(s, 2, Len(s)) ELSE s
    IN IF body # "" /\ IsDigit(SubSeq(body, 1, 1))
       THEN << (IF negative THEN -1 ELSE 1) * LeadingDigits(body, 0) >>
       ELSE << >>

\* parseInt(s) || 0
ParseIntOr0(s) == IF ParseInt(s) = << >> THEN 0 ELSE ParseInt(s)[1]

\* `${n}px`
Px(n) == ToString(n) \o "px"

\* ------------------------------------------------------------ inputs
\* HTML text is modelled by the DOM tree the browser's parser builds from
\* it.  A node is an element or a text node ("#text"); an element has its
\* attributes in source order, its inline style (el.style, "" = not set),
\* its computed style, its child nodes and, for a template element, the
\* template contents, which are not among its children.
NoStyle ==
    [position |-> "", left |-> "", top |-> "", fontSize |-> "", color |-> "",
     fontWeight |-> "", textAlign |-> "", width |-> "", height |-> "", background |-> ""]
Attr(name, value) == [name |-> name, value |-> value]
\* getComputedStyle of an element of a DOMParser document, which is never
\* rendered, has no values.
Element(tag, attrs, style, children) ==
    [localName |-> tag, data |-> "", attributes |-> attrs, style |-> style,
     computed |-> NoStyle, children |-> children, content |-> << >>]
TextNode(data) ==
    [localName |-> "#text", data |-> data, attributes |-> << >>, style |-> NoStyle,
     computed |-> NoStyle, children |-> << >>, content |-> << >>]
Template(contents) ==
    [Element("template", << >>, NoStyle, << >>) EXCEPT !.content = contents]
\* <tag src=...>text</tag>
Node(tag, text, src) ==
    Element(tag,
            IF src # "" THEN << Attr("src", src) >> ELSE << >>,
            NoStyle,
            IF text # "" THEN << TextNode(text) >> ELSE << >>)

\* <script>alert(1)</script><p>Hi</p>
FileA == << Node("script", "alert(1)", ""), Node("p", "Hi", "") >>
\* <img src="a.png" style="position: relative; height: 80px">
FileB ==
    << Element("img", << Attr("src", "a.png") >>,
               [NoStyle EXCEPT !.position = "relative", !.height = "80px"], << >>) >>
Files == {FileA, FileB}

ElementTypes == {"text", "image"}
EditedTexts == {"Edited"}
DataURIs == {"data:image/png;base64,AAAA"}
\* The canvas' getBoundingClientRect(): the canvas is centred below the
\* two toolbars, so neither coordinate is 0.
CanvasRect == [left |-> 40, top |-> 120]
\* Where inside an element the pointer goes down, and where it moves to.
Grabs == { [dx |-> 10, dy |-> 5] }
MovePointers == { [clientX |-> 130, clientY |-> 1000], [clientX |-> 20, clientY |-> 1000] }
\* What the property panel offers for the selected element.
PanelEdits(type) ==
    IF type = "text" THEN { <<"content", "<b>Typed</b>">> } ELSE { <<"src", "b.png">> }
Props == {"content", "src"}
Values == {"<b>Typed</b>", "b.png"}
Keys == {"Delete", "z", "y"}

\* -------------------------------------------------------------- state
VARIABLES
    elements,       \* useState([]), line 149: the live Document
    selectedId,     \* line 150
    history,        \* line 151
    historyIndex,   \* line 152, 0-based; -1 when nothing is stored
    isEditingText,  \* line 155
    isDragging,     \* line 156
    dragOffset,     \* line 157
    now,            \* Date.now() as last read
    imports,        \* FileReaders of handleImport still loading
    uploads,        \* FileReaders of handleImageUpload still loading
    keyEnv,         \* the elements and history handleKey's closure holds
    event,          \* the handler that last set state or was refused
    events          \* events so far that set state or were refused

vars == << elements, selectedId, history, historyIndex, isEditingText,
           isDragging, dragOffset, now, imports, uploads, keyEnv, event,
           events >>

\* ------------------------------------------------------- HTMLSanitizer
Dangerous == {"script", "iframe", "object", "embed", "link", "style"}

IsElement(n) == n.localName # "#text"

\* temp.querySelectorAll(tag).forEach((el) => el.remove()), for every tag
\* of dangerous: the descendants of temp are reached through children; the
\* contents of a template are not descendants of it.
RECURSIVE RemoveDangerous(_)
RemoveDangerous(nodes) ==
    LET kept == SelectSeq(nodes, LAMBDA n : n.localName \notin Dangerous)
    IN [i \in 1..Len(kept) |-> [kept[i] EXCEPT !.children = RemoveDangerous(@)]]

\* attr.name.startsWith("on")
StartsWithOn(name) == StartsWith(name, "on")

\* val.toLowerCase().includes("javascript:")
HasJavascript(val) == Includes(ToLowerCase(val), "javascript:")

\* The two attribute loops over one element.
SanitizeAttrs(attrs) ==
    LET noHandlers == SelectSeq(attrs, LAMBDA a : ~StartsWithOn(a.name))
    IN SelectSeq(noHandlers,
                 LAMBDA a : ~(/\ a.name \in {"href", "src", "action"}
                              /\ a.value # ""
                              /\ HasJavascript(a.value)))

\* temp.querySelectorAll("*").forEach(...)
RECURSIVE SanitizeAll(_)
SanitizeAll(nodes) ==
    [i \in 1..Len(nodes) |->
        [nodes[i] EXCEPT !.attributes = SanitizeAttrs(@), !.children = SanitizeAll(@)]]

\* html is the tree temp.innerHTML = html builds; the result is the tree
\* the returned temp.innerHTML describes, template contents included.
Sanitize(html) == SanitizeAll(RemoveDangerous(html))

\* ---------------------------------------------------------- HTMLParser
\* One optional declaration: present only when the inline value is set.
Opt(key, val) == IF val # "" THEN (key :> val) ELSE [x \in {} |-> ""]

\* Length with the default of the first child for every child
LengthOfFirstChild(inline, computed, dflt) == JsOr(inline, JsOr(computed, Px(50)))

\* el.style.left || style.left || `${50 + i * 20}px`
Length(inline, computed, dflt) == JsOr(inline, JsOr(computed, Px(dflt)))

\* el.getAttribute(name), with "" for null: every use is followed by || "".
GetAttribute(el, name) ==
    LET hits == SelectSeq(el.attributes, LAMBDA a : a.name = name)
    IN IF hits = << >> THEN "" ELSE hits[1].value

\* The nodes below nodes, in document order.
RECURSIVE Descendants(_)
Descendants(nodes) ==
    IF nodes = << >> THEN << >>
    ELSE << Head(nodes) >> \o Descendants(Head(nodes).children) \o Descendants(Tail(nodes))

\* doc.querySelector(".poster") || doc.body, as the container's child
\* nodes; body is the child nodes of doc.body.
Container(body) ==
    LET posters == SelectSeq(Descendants(body),
                             LAMBDA n : IsElement(n) /\ GetAttribute(n, "class") = "poster")
    IN IF posters # << >> THEN posters[1].children ELSE body

\* poster.children: the child elements
Children(nodes) == SelectSeq(nodes, IsElement)

RECURSIVE TextOf(_)
TextOf(nodes) ==
    IF nodes = << >> THEN ""
    ELSE (IF IsElement(Head(nodes)) THEN TextOf(Head(nodes).children) ELSE Head(nodes).data)
         \o TextOf(Tail(nodes))

\* el.textContent
TextContent(el) == TextOf(el.children)

\* i is the 0-based position of the child, t the value of Date.now().
ParseNode(el, i, t) ==
    LET baseStyle ==
            Opt("background", el.style.background) @@ Opt("height", el.style.height)
            @@ Opt("width", el.style.width)
            @@ [position |-> JsOr(el.style.position, JsOr(el.computed.position, "absolute")),
                left |-> Length(el.style.left, el.computed.left, 50 + i * 20),
                top |-> Length(el.style.top, el.computed.top, 50 + i * 20),
                fontSize |-> JsOr(el.style.fontSize, JsOr(el.computed.fontSize, "16px")),
                color |-> JsOr(el.style.color, JsOr(el.computed.color, "#000000")),
                fontWeight |-> JsOr(el.style.fontWeight, JsOr(el.computed.fontWeight, "normal")),
                textAlign |-> JsOr(el.style.textAlign, JsOr(el.computed.textAlign, "left"))]
    IN IF el.localName = "img"
       THEN [id |-> "img-" \o ToString(t) \o "-" \o ToString(i),
             type |-> "image",
             src |-> JsOr(GetAttribute(el, "src"), ""),
             alt |-> JsOr(GetAttribute(el, "alt"), ""),
             tagName |-> "img",
             style |-> [width |-> JsOr(el.style.width, "100px"), height |-> "auto"]
                       @@ baseStyle]
       ELSE [id |-> "text-" \o ToString(t) \o "-" \o ToString(i),
             type |-> "text",
             content |-> JsOr(TextContent(el), ""),
             tagName |-> el.localName,
             style |-> baseStyle]

\* The sanitized text parses back to the sanitized tree.
Parse(html, t) ==
    LET children == Children(Container(Sanitize(html)))
    IN [k \in 1..Len(children) |-> ParseNode(children[k], k - 1, t)]

\* -------------------------------------------------------- HTMLExporter
IsLower(c) == \E i \in 1..Len(LowerCase) : SubSeq(LowerCase, i, i) = c
UpperChar(c) ==
    IF IsLower(c)
    THEN LET i == CHOOSE j \in 1..Len(LowerCase) : SubSeq(LowerCase, j, j) = c
         IN SubSeq(UpperCase, i, i)
    ELSE c

\* k.replace(/([A-Z])/g, "-$1").toLowerCase()
RECURSIVE Kebab(_)
Kebab(k) ==
    IF k = "" THEN ""
    ELSE LET c == SubSeq(k, 1, 1)
         IN (IF IsUpper(c) THEN "-" \o LowerChar(c) ELSE c) \o Kebab(SubSeq(k, 2, Len(k)))

\* The el.style name of a CSS property: font-size is read as fontSize.
RECURSIVE Camel(_)
Camel(p) ==
    IF p = "" THEN ""
    ELSE IF SubSeq(p, 1, 1) = "-" /\ Len(p) >= 2
         THEN UpperChar(SubSeq(p, 2, 2)) \o Camel(SubSeq(p, 3, Len(p)))
         ELSE SubSeq(p, 1, 1) \o Camel(SubSeq(p, 2, Len(p)))

\* Object.entries(el.style) written as declarations: property -> value
Declarations(style) ==
    [p \in { Kebab(k) : k \in DOMAIN style } |->
        style[CHOOSE k \in DOMAIN style : Kebab(k) = p]]

\* The el.style of an element whose style attribute holds decls.
InlineStyle(decls) ==
    [k \in DOMAIN NoStyle |->
        IF \E p \in DOMAIN decls : Camel(p) = k
        THEN decls[CHOOSE p \in DOMAIN decls : Camel(p) = k]
        ELSE ""]

\* What is left of s after the tag it starts with.
RECURSIVE AfterTag(_)
AfterTag(s) ==
    IF s = "" THEN ""
    ELSE IF SubSeq(s, 1, 1) = ">" THEN SubSeq(s, 2, Len(s))
    ELSE AfterTag(SubSeq(s, 2, Len(s)))

\* The text of the nodes the parser builds from s written as markup: a
\* "<" followed by a letter or "/" opens a tag, which is no text.
RECURSIVE TextOfMarkup(_)
TextOfMarkup(s) ==
    IF s = "" THEN ""
    ELSE IF /\ SubSeq(s, 1, 1) = "<"
            /\ Len(s) >= 2
            /\ LET c == SubSeq(s, 2, 2) IN IsUpper(c) \/ IsLower(c) \/ c = "/"
         THEN TextOfMarkup(AfterTag(s))
         ELSE SubSeq(s, 1, 1) \o TextOfMarkup(SubSeq(s, 2, Len(s)))

\* One element as written on lines 121-124, as the parser reads it back.
\* The elements that tags inside the content open are left out: of the
\* content, parseNode reads the textContent only.
ExportElement(el) ==
    IF el.type = "image"
    THEN Element("img", << Attr("src", el.src), Attr("alt", el.alt) >>,
                 InlineStyle(Declarations(el.style)), << >>)
    ELSE Element(el.tagName, << >>, InlineStyle(Declarations(el.style)),
                 IF TextOfMarkup(el.content) = "" THEN << >>
                 ELSE << TextNode(TextOfMarkup(el.content)) >>)

\* The exported document as the tree its text parses to: the style element
\* of the head and the poster in the body (meta and title, which nothing
\* reads, are left out).
Export(els) ==
    << Node("style", "body { margin: 0; padding: 0; }", ""),
       Element("div", << Attr("class", "poster") >>, NoStyle,
               [k \in 1..Len(els) |-> ExportElement(els[k])]) >>

\* ------------------------------------------------------------- helpers
Ids(els) == { els[k].id : k \in 1..Len(els) }

\* elements.find((el) => el.id === id); <<>> when there is none
Find(els, id) ==
    LET hits == SelectSeq(els, LAMBDA el : el.id = id)
    IN IF hits = <<>> THEN <<>> ELSE << hits[1] >>

SelectedElement == Find(elements, selectedId)

Entry(els, sel) == [elements |-> els, selectedId |-> sel]

\* history.slice(0, historyIndex + 1)
Slice(h, idx) == SubSeq(h, 1, Min(idx + 1, Len(h)))

\* saveHistory of the render whose history and historyIndex are h and idx:
\* the history and historyIndex it sets.  The JSON round trip copies the
\* elements, all of them plain data, value for value.
SaveHistory(h, idx, newElements, newSelectedId) ==
    LET newHistory == Append(Slice(h, idx), Entry(newElements, newSelectedId))
    IN [history |-> newHistory, historyIndex |-> Len(newHistory) - 1]

\* The history bound: the push of that render fits.
CanPush(h, idx) == Len(Slice(h, idx)) < MaxHistory

\* updateProperty's map over the elements els of its render
SetProperty(els, sel, prop, val) ==
    [k \in 1..Len(els) |->
        IF els[k].id = sel
        THEN IF prop \in {"content", "src", "alt"}
             THEN (prop :> val) @@ els[k]
             ELSE [els[k] EXCEPT !.style = (prop :> val) @@ @]
        ELSE els[k]]

\* A handler that sets no state causes no render: nothing changes.
NoRender == UNCHANGED vars

\* confirm() answered with Cancel: the handler sets no state; the refusal
\* is kept as the last event.
Declined(handler) ==
    /\ event' = handler \o ":declined"
    /\ events' = events + 1
    /\ UNCHANGED << elements, selectedId, history, historyIndex, isEditingText,
                    isDragging, dragOffset, now, imports, uploads, keyEnv >>

\* Date.now() does not go back: what a handler may read.
Clock == { t \in now..(now + 1) : t <= MaxClock }

\* The render that follows a handler's state updates.  The keydown effect
\* (deps selectedId, isEditingText, historyIndex) runs again, and handleKey
\* closes over the new render, only when one of the three changed.
Rendered(handler) ==
    /\ event' = handler
    /\ events' = events + 1
    /\ keyEnv' = IF << selectedId', isEditingText', historyIndex' >>
                    # << selectedId, isEditingText, historyIndex >>
                 THEN [elements |-> elements', history |-> history']
                 ELSE keyEnv

Init ==
    /\ elements = <<>>
    /\ selectedId = Null
    /\ history = <<>>
    /\ historyIndex = -1
    /\ isEditingText = FALSE
    /\ isDragging = FALSE
    /\ dragOffset = [x |-> 0, y |-> 0]
    /\ now = 0
    /\ imports = <<>>
    /\ uploads = <<>>
    /\ keyEnv = [elements |-> <<>>, history |-> <<>>]
    /\ event = "mount"
    /\ events = 0

\* ------------------------------------------------------------ commands
NewElement(type, t) ==
    IF type = "text"
    THEN [id |-> "text-" \o ToString(t), type |-> "text", content |-> "New Text",
          tagName |-> "p",
          style |-> [position |-> "absolute", left |-> Px(50), top |-> Px(50),
                     fontSize |-> "16px", color |-> "#000000"]]
    ELSE [id |-> "img-" \o ToString(t), type |-> "image",
          src |-> "https://via.placeholder.com/150", alt |-> "Image", tagName |-> "img",
          style |-> [position |-> "absolute", left |-> Px(50), top |-> Px(50),
                     width |-> "150px", height |-> "auto"]]

addElement(type, t) ==
    LET newEl == NewElement(type, t)
        newElements == Append(elements, newEl)
        saved == SaveHistory(history, historyIndex, newElements, newEl.id)
    IN /\ events < MaxEvents
       /\ Len(elements) < MaxElements
       /\ CanPush(history, historyIndex)
       /\ now' = t
       /\ elements' = newElements
       /\ selectedId' = newEl.id
       /\ history' = saved.history
       /\ historyIndex' = saved.historyIndex
       /\ UNCHANGED << isEditingText, isDragging, dragOffset, imports, uploads >>
       /\ Rendered("addElement")

\* elements.filter((el) => el.id !== selectedId)
Without(els, id) == SelectSeq(els, LAMBDA el : el.id # id)

\* deleteElement clearing the selection before it asks for confirmation
DeleteInClearingFirst(els, h, confirmed) ==
    IF selectedId = Null
    THEN NoRender
    ELSE LET newElements == IF confirmed THEN Without(els, selectedId) ELSE elements
             saved == IF confirmed
                      THEN SaveHistory(h, historyIndex, newElements, Null)
                      ELSE [history |-> history, historyIndex |-> historyIndex]
         IN /\ confirmed => CanPush(h, historyIndex)
            /\ elements' = newElements
            /\ selectedId' = Null
            /\ history' = saved.history
            /\ historyIndex' = saved.historyIndex
            /\ UNCHANGED << isEditingText, isDragging, dragOffset, now, imports, uploads >>
            /\ Rendered(IF confirmed THEN "deleteElement" ELSE "deleteElement:declined")

\* deleteElement of the render whose elements and history are els and h
\* (its selectedId and historyIndex are the current ones: a change of
\* either re-creates every closure that holds them).
DeleteIn(els, h, confirmed) ==
    IF selectedId = Null
    THEN NoRender
    ELSE IF ~confirmed
    THEN Declined("deleteElement")
    ELSE LET newElements == Without(els, selectedId)
             saved == SaveHistory(h, historyIndex, newElements, Null)
         IN /\ CanPush(h, historyIndex)
            /\ elements' = newElements
            /\ selectedId' = Null
            /\ history' = saved.history
            /\ historyIndex' = saved.historyIndex
            /\ UNCHANGED << isEditingText, isDragging, dragOffset, now, imports, uploads >>
            /\ Rendered("deleteElement")

\* The Delete button (disabled while nothing is selected).
deleteElement(confirmed) ==
    /\ events < MaxEvents
    /\ selectedId # Null
    /\ DeleteIn(elements, history, confirmed)

\* updateProperty of the render whose elements and selectedId are els and sel
UpdateIn(els, sel, prop, val, handler) ==
    IF sel = Null
    THEN NoRender
    ELSE /\ elements' = SetProperty(els, sel, prop, val)
         /\ UNCHANGED << selectedId, history, historyIndex, isEditingText, isDragging,
                         dragOffset, now, imports >>
         /\ Rendered(handler)

\* The property panel, shown while the selected element exists.
updateProperty(prop, val) ==
    /\ events < MaxEvents
    /\ SelectedElement # <<>>
    /\ << prop, val >> \in PanelEdits(SelectedElement[1].type)
    /\ UpdateIn(elements, selectedId, prop, val, "updateProperty")
    /\ UNCHANGED uploads

\* undo of the render whose history is h; a missing entry throws before
\* anything is set.
UndoIn(h) ==
    IF historyIndex > 0 /\ historyIndex <= Len(h)
    THEN LET state == h[historyIndex]
         IN /\ elements' = state.elements
            /\ selectedId' = state.selectedId
            /\ historyIndex' = historyIndex - 1
            /\ UNCHANGED << history, isEditingText, isDragging, dragOffset, now,
                            imports, uploads >>
            /\ Rendered("undo")
    ELSE NoRender

RedoIn(h) ==
    IF historyIndex < Len(h) - 1
    THEN LET state == h[historyIndex + 2]
         IN /\ elements' = state.elements
            /\ selectedId' = state.selectedId
            /\ historyIndex' = historyIndex + 1
            /\ UNCHANGED << history, isEditingText, isDragging, dragOffset, now,
                            imports, uploads >>
            /\ Rendered("redo")
    ELSE NoRender

\* The Undo and Redo buttons (each disabled where its handler would do nothing).
undo ==
    /\ events < MaxEvents
    /\ historyIndex > 0
    /\ UndoIn(history)

redo ==
    /\ events < MaxEvents
    /\ historyIndex < Len(history) - 1
    /\ RedoIn(history)

\* handleKey, with the deleteElement, undo and redo of the render it closed over.
handleKey(key, confirmed) ==
    /\ events < MaxEvents
    /\ IF isEditingText
       THEN NoRender
       ELSE CASE key = "Delete" ->
                    IF selectedId # Null
                    THEN DeleteIn(keyEnv.elements, keyEnv.history, confirmed)
                    ELSE NoRender
              [] key = "z" -> UndoIn(keyEnv.history)
              [] key = "y" -> RedoIn(keyEnv.history)

\* ------------------------------------------------------ import, paste
\* A second read started while one is loading races it; both are marked.
handleImport(file) ==
    /\ events < MaxEvents
    /\ Len(imports) < MaxPending
    /\ CanPush(history, historyIndex)
    /\ imports' = Append([k \in 1..Len(imports) |-> [imports[k] EXCEPT !.raced = TRUE]],
                         [file |-> file, history |-> history,
                          historyIndex |-> historyIndex, raced |-> imports # <<>>])
    /\ UNCHANGED << elements, selectedId, history, historyIndex, isEditingText,
                    isDragging, dragOffset, now, uploads, keyEnv >>
    /\ event' = "handleImport"
    /\ events' = events + 1

Remove(seq, k) == SubSeq(seq, 1, k - 1) \o SubSeq(seq, k + 1, Len(seq))

\* importOnload without its setSelectedId(null)
importOnloadKeepsSelection(k, t) ==
    LET reader == imports[k]
        parsed == Parse(reader.file, t)
        saved == SaveHistory(reader.history, reader.historyIndex, parsed, Null)
    IN /\ events < MaxEvents
       /\ now' = t
       /\ elements' = parsed
       /\ history' = saved.history
       /\ historyIndex' = saved.historyIndex
       /\ imports' = Remove(imports, k)
       /\ UNCHANGED << selectedId, isEditingText, isDragging, dragOffset, uploads >>
       /\ Rendered(IF reader.raced THEN "import.onload:raced" ELSE "import.onload")

\* reader.onload of handleImport for the k-th read in flight
importOnload(k, t) ==
    LET reader == imports[k]
        parsed == Parse(reader.file, t)
        saved == SaveHistory(reader.history, reader.historyIndex, parsed, Null)
    IN /\ events < MaxEvents
       /\ now' = t
       /\ elements' = parsed
       /\ selectedId' = Null
       /\ history' = saved.history
       /\ historyIndex' = saved.historyIndex
       /\ imports' = Remove(imports, k)
       /\ UNCHANGED << isEditingText, isDragging, dragOffset, uploads >>
       /\ Rendered(IF reader.raced THEN "import.onload:raced" ELSE "import.onload")

\* prompt() gives the pasted HTML, or nothing
handlePaste(html, t) ==
    /\ events < MaxEvents
    /\ IF html = <<>>
       THEN NoRender
       ELSE LET parsed == Parse(html, t)
                saved == SaveHistory(history, historyIndex, parsed, Null)
            IN /\ CanPush(history, historyIndex)
               /\ now' = t
               /\ elements' = parsed
               /\ selectedId' = Null
               /\ history' = saved.history
               /\ historyIndex' = saved.historyIndex
               /\ UNCHANGED << isEditingText, isDragging, dragOffset, imports, uploads >>
               /\ Rendered("handlePaste")

\* The upload button is shown for a selected image.
handleImageUpload(data) ==
    /\ events < MaxEvents
    /\ selectedId # Null
    /\ SelectedElement # <<>> /\ SelectedElement[1].type = "image"
    /\ Len(uploads) < MaxUploads
    /\ uploads' = Append(uploads, [data |-> data, elements |-> elements,
                                   selectedId |-> selectedId])
    /\ UNCHANGED << elements, selectedId, history, historyIndex, isEditingText,
                    isDragging, dragOffset, now, imports, keyEnv >>
    /\ event' = "handleImageUpload"
    /\ events' = events + 1

\* reader.onload of handleImageUpload: updateProperty("src", result) of the
\* render in which the read started
uploadOnload(k) ==
    LET reader == uploads[k]
    IN /\ events < MaxEvents
       /\ UpdateIn(reader.elements, reader.selectedId, "src", reader.data, "upload.onload")
       /\ uploads' = Remove(uploads, k)

\* ------------------------------------------------------ pointer, text
\* The canvas' onClick; setting the state it already has renders nothing.
canvasClick ==
    /\ events < MaxEvents
    /\ IF selectedId = Null
       THEN NoRender
       ELSE /\ selectedId' = Null
            /\ UNCHANGED << elements, history, historyIndex, isEditingText, isDragging,
                            dragOffset, now, imports, uploads >>
            /\ Rendered("canvasClick")

\* The pointer goes down on the k-th element, at grab inside it.
handleMouseDown(k, grab) ==
    LET id == elements[k].id
        el == Find(elements, id)[1]
        left == ParseIntOr0(el.style.left)
        top == ParseIntOr0(el.style.top)
        clientX == CanvasRect.left + ParseIntOr0(elements[k].style.left) + grab.dx
        clientY == CanvasRect.top + ParseIntOr0(elements[k].style.top) + grab.dy
    IN /\ events < MaxEvents
       /\ ~isDragging
       /\ IF isEditingText
          THEN NoRender
          ELSE /\ selectedId' = id
               /\ isDragging' = TRUE
               /\ dragOffset' = [x |-> clientX - left, y |-> clientY - top]
               /\ UNCHANGED << elements, history, historyIndex, isEditingText, now,
                               imports, uploads >>
               /\ Rendered("handleMouseDown")

\* Clamp without its lower bound
ClampAtMaxOnly(v) == Min(v, CanvasMax)

Clamp(v) == Max(0, Min(v, CanvasMax))

\* The mousemove listener, attached while isDragging.
handleMove(pointer) ==
    /\ events < MaxEvents
    /\ isDragging
    /\ IF selectedId = Null
       THEN NoRender
       ELSE LET x == Clamp(pointer.clientX - CanvasRect.left - dragOffset.x)
                y == Clamp(pointer.clientY - CanvasRect.top - dragOffset.y)
            IN /\ elements' = [k \in 1..Len(elements) |->
                                IF elements[k].id = selectedId
                                THEN [elements[k] EXCEPT !.style.left = Px(x),
                                                         !.style.top = Px(y)]
                                ELSE elements[k]]
               /\ UNCHANGED << selectedId, history, historyIndex, isEditingText,
                               isDragging, dragOffset, now, imports, uploads >>
               /\ Rendered("handleMove")

\* handleUp without its saveHistory
handleUpWithoutPush ==
    /\ events < MaxEvents
    /\ isDragging
    /\ isDragging' = FALSE
    /\ UNCHANGED << elements, selectedId, history, historyIndex, isEditingText,
                    dragOffset, now, imports, uploads >>
    /\ Rendered("handleUp")

\* The mouseup listener, attached while isDragging.
handleUp ==
    LET saved == SaveHistory(history, historyIndex, elements, selectedId)
    IN /\ events < MaxEvents
       /\ isDragging
       /\ CanPush(history, historyIndex)
       /\ isDragging' = FALSE
       /\ history' = saved.history
       /\ historyIndex' = saved.historyIndex
       /\ UNCHANGED << elements, selectedId, isEditingText, dragOffset, now,
                       imports, uploads >>
       /\ Rendered("handleUp")

handleDoubleClick(k) ==
    LET el == Find(elements, elements[k].id)[1]
    IN /\ events < MaxEvents
       /\ IF el.type = "text"
          THEN /\ selectedId' = elements[k].id
               /\ isEditingText' = TRUE
               /\ UNCHANGED << elements, history, historyIndex, isDragging, dragOffset,
                               now, imports, uploads >>
               /\ Rendered("handleDoubleClick")
          ELSE NoRender

\* The inline editor exists while a text element is selected and edited;
\* it loses the focus holding text.  updateProperty sets the new elements,
\* saveHistory stores the elements of the render the handler belongs to.
handleTextBlur(text) ==
    LET saved == SaveHistory(history, historyIndex, elements, selectedId)
    IN /\ events < MaxEvents
       /\ isEditingText
       /\ SelectedElement # <<>> /\ SelectedElement[1].type = "text"
       /\ CanPush(history, historyIndex)
       /\ elements' = SetProperty(elements, selectedId, "content", text)
       /\ isEditingText' = FALSE
       /\ history' = saved.history
       /\ historyIndex' = saved.historyIndex
       /\ UNCHANGED << selectedId, isDragging, dragOffset, now, imports, uploads >>
       /\ Rendered("handleTextBlur")

Next ==
    \/ \E type \in ElementTypes, t \in Clock : addElement(type, t)
    \/ \E confirmed \in BOOLEAN : deleteElement(confirmed)
    \/ \E prop \in Props, val \in Values : updateProperty(prop, val)
    \/ undo
    \/ redo
    \/ \E key \in Keys, confirmed \in BOOLEAN : handleKey(key, confirmed)
    \/ \E file \in Files : handleImport(file)
    \/ \E k \in 1..Len(imports), t \in Clock : importOnload(k, t)
    \/ \E html \in Files \cup {<<>>}, t \in Clock : handlePaste(html, t)
    \/ \E data \in DataURIs : handleImageUpload(data)
    \/ \E k \in 1..Len(uploads) : uploadOnload(k)
    \/ canvasClick
    \/ \E k \in 1..Len(elements), grab \in Grabs : handleMouseDown(k, grab)
    \/ \E pointer \in MovePointers : handleMove(pointer)
    \/ handleUp
    \/ \E k \in 1..Len(elements) : handleDoubleClick(k)
    \/ \E text \in EditedTexts : handleTextBlur(text)

Spec == Init /\ [][Next]_vars

\* ------------------------------------------- imports of many files
\* The import path alone, over many files: one file has been picked in the
\* first render and its read completes.
Paragraph == Node("p", "Hi", "")
Image == Node("img", "", "a.png")
\* <img src="b.png" alt="B" style="width: 200px; height: 80px">
SizedImage ==
    Element("img", << Attr("src", "b.png"), Attr("alt", "B") >>,
            [NoStyle EXCEPT !.width = "200px", !.height = "80px"], << >>)
\* <h1 style="left: 5px; top: 7px">Top</h1>
PlacedHeading ==
    Element("h1", << >>, [NoStyle EXCEPT !.left = "5px", !.top = "7px"],
            << TextNode("Top") >>)
Script == Node("script", "alert(1)", "")
\* <a onclick="steal()" href="JavaScript:alert(1)" title="t">go</a>
Link ==
    Element("a", << Attr("onclick", "steal()"), Attr("href", "JavaScript:alert(1)"),
                    Attr("title", "t") >>,
            NoStyle, << TextNode("go") >>)
\* <div id="box">A<iframe src="x"></iframe><span onmouseover="x()" lang="en">B</span></div>
Box ==
    Element("div", << Attr("id", "box") >>, NoStyle,
            << TextNode("A"), Node("iframe", "", "x"),
               Element("span", << Attr("onmouseover", "x()"), Attr("lang", "en") >>,
                       NoStyle, << TextNode("B") >>) >>)
\* <template><script>alert(1)</script><b onclick="x()">T</b></template>
ScriptTemplate ==
    Template(<< Script,
                Element("b", << Attr("onclick", "x()") >>, NoStyle, << TextNode("T") >>) >>)

Leaves == {Paragraph, Image, SizedImage, PlacedHeading, Script, Link, Box, ScriptTemplate}
Poster(children) == Element("div", << Attr("class", "poster") >>, NoStyle, children)
Posters == { Poster(<< a >>) : a \in Leaves } \cup { Poster(<< a, b >>) : a, b \in Leaves }
\* A file is one leaf or poster, or a leaf followed by one.
ImportedFiles ==
    { << a >> : a \in Leaves \cup Posters }
        \cup { << a, b >> : a \in Leaves, b \in Leaves \cup Posters }

ImportInit ==
    /\ elements = << >>
    /\ selectedId = Null
    /\ history = << >>
    /\ historyIndex = -1
    /\ isEditingText = FALSE
    /\ isDragging = FALSE
    /\ dragOffset = [x |-> 0, y |-> 0]
    /\ now = 0
    /\ \E file \in ImportedFiles :
          imports = << [file |-> file, history |-> << >>, historyIndex |-> -1,
                        raced |-> FALSE] >>
    /\ uploads = << >>
    /\ keyEnv = [elements |-> << >>, history |-> << >>]
    /\ event = "handleImport"
    /\ events = 1

ImportNext == \E k \in 1..Len(imports), t \in Clock : importOnload(k, t)

ImportSpec == ImportInit /\ [][ImportNext]_vars

\* ------------------------------------------------------------- claims
\* The step just taken was made by handler.
By(handler) == events' # events /\ event' = handler

\* The entry the index points at, when it points at one.
HasCurrent(h, idx) == idx + 1 \in 1..Len(h)
Current(h, idx) == h[idx + 1]

PushHandlers ==
    {"addElement", "deleteElement", "import.onload", "import.onload:raced",
     "handlePaste", "handleUp", "handleTextBlur"}

\* C1: undo acts only when historyIndex > 0, redo only when historyIndex <
\* length - 1; each moves the index by one, leaves the history alone and
\* makes the entry the index then points at the live Document and selection.
C1_UndoRedoStepThroughHistory ==
    [][ /\ By("undo") =>
            /\ historyIndex > 0
            /\ historyIndex' = historyIndex - 1
            /\ history' = history
            /\ HasCurrent(history', historyIndex')
            /\ Entry(elements', selectedId') = Current(history', historyIndex')
        /\ By("redo") =>
            /\ historyIndex < Len(history) - 1
            /\ historyIndex' = historyIndex + 1
            /\ history' = history
            /\ HasCurrent(history', historyIndex')
            /\ Entry(elements', selectedId') = Current(history', historyIndex')
      ]_vars

\* C2: every push keeps the entries up to the current index, drops the
\* rest, appends one entry and leaves the index on it.
C2_PushTruncatesAtCurrentIndex ==
    [][ (events' # events /\ event' \in PushHandlers) =>
            /\ history' # <<>>
            /\ history' = Append(Slice(history, historyIndex), history'[Len(history')])
            /\ historyIndex' = Len(history') - 1
      ]_vars

\* C3: the history index stays within [-1, length - 1].
C3_IndexWithinHistory ==
    -1 <= historyIndex /\ historyIndex <= Len(history) - 1

\* C4: the selection, live and in every history entry, is empty or names
\* an element of the elements it goes with.
C4_NoDanglingSelection ==
    /\ selectedId = Null \/ selectedId \in Ids(elements)
    /\ \A k \in 1..Len(history) :
          history[k].selectedId = Null \/ history[k].selectedId \in Ids(history[k].elements)

\* C5: the blur of the inline editor leaves EditingText, makes the edited
\* text the content of the selected element, and the entry it pushes is the
\* live Document holding that text.
C5_BlurCommitsEditedText ==
    [][ By("handleTextBlur") =>
            /\ ~isEditingText'
            /\ \E text \in EditedTexts :
                  elements' = SetProperty(elements, selectedId, "content", text)
            /\ HasCurrent(history', historyIndex')
            /\ Current(history', historyIndex').elements = elements'
      ]_vars

\* The import just completed was the k-th in flight.
Completed(k) ==
    /\ k \in 1..Len(imports)
    /\ imports' = Remove(imports, k)
    /\ elements' = Parse(imports[k].file, now')

\* C6: a completed import replaces the Document by the parsed file, clears
\* the selection and pushes one entry onto the history as it is when the
\* read completes.
C6_ImportPushesOnCurrentHistory ==
    [][ (By("import.onload") \/ By("import.onload:raced")) =>
            /\ \E k \in 1..Len(imports) : Completed(k)
            /\ selectedId' = Null
            /\ history' = Append(Slice(history, historyIndex), Entry(elements', Null))
            /\ historyIndex' = Len(history') - 1
      ]_vars

\* C7: of imports in flight together, the one that completes last wins:
\* after each completion the Document is the parse of the file just read,
\* the selection is empty and the entry at the index is that Document.
C7_LastCompletedImportWins ==
    [][ By("import.onload:raced") =>
            /\ \E k \in 1..Len(imports) : Completed(k)
            /\ selectedId' = Null
            /\ HasCurrent(history', historyIndex')
            /\ Current(history', historyIndex') = Entry(elements', Null)
      ]_vars

\* Two imports were in flight together and both have completed.
C7_Witness ==
    /\ event = "import.onload:raced"
    /\ imports = <<>>
    /\ elements # <<>>
    /\ selectedId = Null
    /\ HasCurrent(history, historyIndex)
    /\ Current(history, historyIndex).elements = elements

\* C8: a completed image upload sets the src of the element it was started
\* for and pushes an entry holding the new src.
C8_UploadPushesHistory ==
    [][ By("upload.onload") =>
            /\ \E k \in 1..Len(uploads) :
                  /\ uploads' = Remove(uploads, k)
                  /\ \A j \in 1..Len(elements') :
                        elements'[j].id = uploads[k].selectedId
                            => elements'[j].src = uploads[k].data
            /\ history' # history
            /\ HasCurrent(history', historyIndex')
            /\ Current(history', historyIndex').elements = elements'
      ]_vars

\* C9: a confirmed delete of a selected element that exists removes that
\* one element, keeps the others in order, clears the selection and pushes
\* the resulting Document with an empty selection.
C9_DeleteRemovesExactlyOne ==
    [][ (By("deleteElement") /\ selectedId \in Ids(elements)) =>
            /\ \E k \in 1..Len(elements) :
                  /\ elements[k].id = selectedId
                  /\ elements' = Remove(elements, k)
            /\ selectedId' = Null
            /\ HasCurrent(history', historyIndex')
            /\ Current(history', historyIndex') = Entry(elements', Null)
      ]_vars

\* C10: every step that leaves Dragging is the pointer-up, which leaves
\* the Document and the selection as they are and pushes them as one entry.
C10_PointerUpCommits ==
    [][ (isDragging /\ ~isDragging') =>
            /\ By("handleUp")
            /\ elements' = elements
            /\ selectedId' = selectedId
            /\ history' = Append(Slice(history, historyIndex), Entry(elements, selectedId))
            /\ historyIndex' = Len(history') - 1
      ]_vars

\* A drag that moved an element against the canvas bound has been released.
C10_Witness ==
    /\ event = "handleUp"
    /\ ~isDragging
    /\ \E k \in 1..Len(elements) :
          elements[k].id = selectedId /\ elements[k].style.top = Px(CanvasMax)
    /\ HasCurrent(history, historyIndex)
    /\ Current(history, historyIndex) = Entry(elements, selectedId)

\* C11: a pointer-move while dragging leaves the dragged element's left
\* and top within [0, CanvasMax]: each is the pointer's position less the
\* canvas origin and the grab offset, made 0 when below 0 and CanvasMax when
\* above it, one axis regardless of the other.
C11_MoveClampsEachAxis ==
    [][ By("handleMove") =>
            \E pointer \in MovePointers :
                LET rawX == pointer.clientX - CanvasRect.left - dragOffset.x
                    rawY == pointer.clientY - CanvasRect.top - dragOffset.y
                    x == IF rawX < 0 THEN 0 ELSE IF rawX > CanvasMax THEN CanvasMax ELSE rawX
                    y == IF rawY < 0 THEN 0 ELSE IF rawY > CanvasMax THEN CanvasMax ELSE rawY
                IN /\ Len(elements') = Len(elements)
                   /\ \A k \in 1..Len(elements) :
                         IF elements[k].id = selectedId
                         THEN /\ elements'[k].style.left = Px(x)
                              /\ elements'[k].style.top = Px(y)
                              /\ ParseIntOr0(elements'[k].style.left) \in 0..CanvasMax
                              /\ ParseIntOr0(elements'[k].style.top) \in 0..CanvasMax
                         ELSE elements'[k] = elements[k]
      ]_vars

\* A drag has moved an element left of the canvas and below it at once:
\* its left is 0 and its top is CanvasMax.
C11_Witness ==
    /\ event = "handleMove"
    /\ isDragging
    /\ \E k \in 1..Len(elements) :
          /\ elements[k].id = selectedId
          /\ elements[k].style.left = Px(0)
          /\ elements[k].style.top = Px(CanvasMax)

\* C12: an edit made through updateProperty reaches the history: when the
\* edit is done (no field of the panel has a blur handler, so a blur after
\* it changes nothing) the entry at the index holds the edited Document.
C12_PropertyEditReachesHistory ==
    [][ By("updateProperty") =>
            /\ HasCurrent(history', historyIndex')
            /\ Current(history', historyIndex').elements = elements'
      ]_vars

\* C13: no step changes a stored entry: every entry up to the current
\* index, which no truncation removes, is after the step what it was.
C13_StoredEntriesNeverChange ==
    [][ \A k \in 1..Len(history) :
            k <= historyIndex + 1 => (k <= Len(history') /\ history'[k] = history[k])
      ]_vars

\* C14: the ids of the elements of the live Document are pairwise distinct.
C14_IdsDistinct ==
    \A j, k \in 1..Len(elements) : j # k => elements[j].id # elements[k].id

\* C15: every element of the live Document has style.position "absolute".
C15_PositionAbsolute ==
    \A k \in 1..Len(elements) : elements[k].style.position = "absolute"

\* The content of a text element, the src of an image.
Payload(el) == IF el.type = "image" THEN el.src ELSE el.content

\* C16: parsing the export of the live Document gives as many elements,
\* with the same type and the same content or src at each position.
C16_ExportParseRoundTrip ==
    LET back == Parse(Export(elements), now)
    IN /\ Len(back) = Len(elements)
       /\ \A k \in 1..Len(elements) :
             /\ back[k].type = elements[k].type
             /\ Payload(back[k]) = Payload(elements[k])

\* C20: deleteElement and updateProperty, run while selectedId names no
\* element of the live Document, leave the Document, the selection, the
\* history and the index as they are.
C20_CommandOnMissingElementIsNoOp ==
    [][ ((By("deleteElement") \/ By("updateProperty")) /\ selectedId \notin Ids(elements)) =>
            UNCHANGED << elements, selectedId, history, historyIndex >>
      ]_vars

\* The child elements of the container of the sanitized file: of the first
\* element of class poster, or of the body when there is none.
ContainerChildren(file) == Children(Container(Sanitize(file)))

\* <div class="poster"><p>Hi</p><img src="a.png"></div>
ExampleFile == << Poster(<< Paragraph, Image >>) >>

\* C17: a completed import holds one element per child element of the
\* container, in document order: an img child gives an image with its src,
\* any other child a text with its tag and text; the child at 0-based
\* position i with no inline left (top) gets left (top) = (50 + 20 * i) px.
C17_OneElementPerChild ==
    [][ By("import.onload") =>
            \E r \in 1..Len(imports) :
                LET kids == ContainerChildren(imports[r].file)
                IN /\ imports' = Remove(imports, r)
                   /\ Len(elements') = Len(kids)
                   /\ \A k \in 1..Len(kids) :
                         /\ elements'[k].tagName = kids[k].localName
                         /\ IF kids[k].localName = "img"
                            THEN /\ elements'[k].type = "image"
                                 /\ elements'[k].src = GetAttribute(kids[k], "src")
                            ELSE /\ elements'[k].type = "text"
                                 /\ elements'[k].content = TextContent(kids[k])
                         /\ kids[k].style.left = ""
                                => elements'[k].style.left = Px(50 + 20 * (k - 1))
                         /\ kids[k].style.top = ""
                                => elements'[k].style.top = Px(50 + 20 * (k - 1))
      ]_vars

\* The example file has been imported: a text Hi of tag p at 50px/50px, then
\* an image a.png at 70px/70px.
C17_Witness ==
    /\ event = "import.onload"
    /\ Len(elements) = 2
    /\ elements[1].type = "text" /\ elements[1].content = "Hi"
    /\ elements[1].tagName = "p"
    /\ elements[1].style.left = "50px" /\ elements[1].style.top = "50px"
    /\ elements[2].type = "image" /\ elements[2].src = "a.png"
    /\ elements[2].style.left = "70px" /\ elements[2].style.top = "70px"

\* C18: an imported img keeps its inline width and its inline height, and
\* gets width 100px and height auto only where the source sets none.
C18_ImageKeepsInlineSize ==
    [][ By("import.onload") =>
            \E r \in 1..Len(imports) :
                LET kids == ContainerChildren(imports[r].file)
                IN /\ Len(elements') = Len(kids)
                   /\ \A k \in 1..Len(kids) :
                         kids[k].localName = "img" =>
                            /\ elements'[k].style.width = JsOr(kids[k].style.width, "100px")
                            /\ elements'[k].style.height = JsOr(kids[k].style.height, "auto")
      ]_vars

\* Every node of a tree, template contents included.
RECURSIVE AllNodes(_)
AllNodes(nodes) ==
    IF nodes = << >> THEN << >>
    ELSE << Head(nodes) >> \o AllNodes(Head(nodes).children)
         \o AllNodes(Head(nodes).content) \o AllNodes(Tail(nodes))

UnsafeAttr(a) ==
    \/ StartsWith(a.name, "on")
    \/ a.name \in {"href", "src", "action"} /\ Includes(ToLowerCase(a.value), "javascript:")

\* The tree with the dangerous elements and the unsafe attributes taken
\* out at every depth and everything else kept in order.
RECURSIVE Cleaned(_)
Cleaned(nodes) ==
    LET kept == SelectSeq(nodes, LAMBDA n : n.localName \notin Dangerous)
    IN [i \in 1..Len(kept) |->
          [kept[i] EXCEPT !.attributes = SelectSeq(@, LAMBDA a : ~UnsafeAttr(a)),
                          !.children = Cleaned(@),
                          !.content = Cleaned(@)]]

\* C19: what the sanitizer makes of an imported file holds no dangerous
\* element at any depth and no unsafe attribute, and is the file with
\* exactly those taken out.
C19_SanitizerRemovesExactlyTheUnsafe ==
    [][ By("import.onload") =>
            \E r \in 1..Len(imports) :
                LET out == Sanitize(imports[r].file)
                    all == AllNodes(out)
                IN /\ imports' = Remove(imports, r)
                   /\ \A i \in 1..Len(all) :
                         /\ all[i].localName \notin Dangerous
                         /\ \A j \in 1..Len(all[i].attributes) :
                               ~UnsafeAttr(all[i].attributes[j])
                   /\ out = Cleaned(imports[r].file)
      ]_vars

\* C21: deleteElement acts only with a selection, and a delete the user
\* declines leaves the Document, the selection, the history, the index and
\* the drag and edit state as they are.
C21_DeclinedDeleteChangesNothing ==
    [][ /\ By("deleteElement") => selectedId # Null
        /\ By("deleteElement:declined") =>
              /\ selectedId # Null
              /\ UNCHANGED << elements, selectedId, history, historyIndex,
                              isEditingText, isDragging, dragOffset >>
      ]_vars

\* The delete of a selected element that is in the Document and in the
\* entry at the index has been declined.
C21_Witness ==
    /\ event = "deleteElement:declined"
    /\ selectedId \in Ids(elements)
    /\ HasCurrent(history, historyIndex)
    /\ Current(history, historyIndex) = Entry(elements, selectedId)

\* C22: a pointer-move while dragging changes the left and top of one
\* element, the selected one, and nothing else: not another element, not
\* another field, not the order, the selection, the history or the index.
C22_MoveChangesOnlyTheDraggedElement ==
    [][ By("handleMove") =>
            /\ UNCHANGED << selectedId, history, historyIndex, isEditingText,
                            isDragging, dragOffset >>
            /\ Len(elements') = Len(elements)
            /\ \/ elements' = elements
               \/ \E k \in 1..Len(elements) :
                     /\ elements[k].id = selectedId
                     /\ \A j \in 1..Len(elements) : j # k => elements'[j] = elements[j]
                     /\ elements'[k] =
                            [elements[k] EXCEPT !.style.left = elements'[k].style.left,
                                                !.style.top = elements'[k].style.top]
      ]_vars

Clamped(v) == IF v < 0 THEN 0 ELSE IF v > CanvasMax THEN CanvasMax ELSE v

\* C23: the first pointer-move after pointer-down puts the element at its
\* position plus the pointer's displacement since pointer-down, clamped:
\* the pointer went down at the recorded offset from the element's origin.
C23_MoveFollowsPointerDisplacement ==
    [][ (By("handleMove") /\ event = "handleMouseDown") =>
            \E pointer \in MovePointers :
                \A k \in 1..Len(elements) :
                    elements[k].id = selectedId =>
                        LET left == ParseIntOr0(elements[k].style.left)
                            top == ParseIntOr0(elements[k].style.top)
                            downX == left + dragOffset.x
                            downY == top + dragOffset.y
                        IN /\ elements'[k].style.left
                                = Px(Clamped(left + (pointer.clientX - downX)))
                           /\ elements'[k].style.top
                                = Px(Clamped(top + (pointer.clientY - downY)))
      ]_vars

\* C24: while dragging, the selection names an element of the live
\* Document; while editing text, it names a text element of it.
C24_DragAndEditHaveTheirElement ==
    /\ isDragging => selectedId \in Ids(elements)
    /\ isEditingText =>
          \E k \in 1..Len(elements) :
              elements[k].id = selectedId /\ elements[k].type = "text"

\* C25: a completed image upload sets the src of the element it was started
\* for in the Document as it is when the read completes, and changes
\* nothing else of it.
C25_UploadChangesOnlyItsSrc ==
    [][ By("upload.onload") =>
            \E r \in 1..Len(uploads) :
                /\ uploads' = Remove(uploads, r)
                /\ elements' = SetProperty(elements, uploads[r].selectedId, "src",
                                           uploads[r].data)
      ]_vars
====
